---- MODULE Spec2Model ----
(***************************************************************************)
(* Model of libraries/AP_Rally/AP_Rally.cpp: the rally point store (get,   *)
(* set, append, truncate over a fixed region of 15-byte records and the    *)
(* RALLY_TOTAL count parameter) and the return-location selection          *)
(* (rally_location_to_location, find_nearest_rally_point,                  *)
(* calc_best_rally_or_home_location).                                      *)
(*                                                                         *)
(* Units: latitudes and longitudes are grid steps, one step being          *)
(* GridMetres metres for get_distance; altitudes are the integers of the   *)
(* code (metres in a RallyLocation, centimetres in a Location).            *)
(***************************************************************************)
EXTENDS Integers, Naturals, Sequences, FiniteSets, TLC

\* ------------------------------------------------------------------ bounds
\* number of whole records the modelled storage region holds
MaxPoints == 2

\* --------------------------------------------------------------- constants
\* assert_storage_size<RallyLocation, 15>
sizeof_RallyLocation == 15
\* bytes of the region left over after the last whole record
RegionSlackBytes == 7
\* metres per grid step of latitude / longitude
GridMetres == 500
\* first longitude the vehicle's is_valid() override rejects
FenceLng == 2

\* the StorageRally region: MaxPoints whole records and a few spare bytes
storage_size == MaxPoints * sizeof_RallyLocation + RegionSlackBytes

\* ------------------------------------------------------------ integer widths
\* conversion to uint8_t
U8(x) == x % 256

\* conversion to int8_t (the AP_Int8 that holds RALLY_TOTAL)
I8(x) == LET u == x % 256 IN IF u >= 128 THEN u - 256 ELSE u

\* ------------------------------------------------------------------- values
\* a RallyLocation as stored: lat, lng (1e-7 degrees in the code), alt (int16 metres)
RallyLoc(la, lo, al) == [lat |-> la, lng |-> lo, alt |-> al]

\* the records callers write
RallyInputs ==
    { RallyLoc(0, 0, 7),     \* lat == 0 and lng == 0: the "absent" value
      RallyLoc(0, 1, -2),    \* lat == 0 only, negative altitude
      RallyLoc(3, 0, 1) }    \* lng == 0 only

\* value of a RallyLocation output parameter the callee did not assign
NoRally == [lat |-> -1, lng |-> -1, alt |-> -1]

\* RallyLocation ral_loc = {} : the zero-initialised record
ZeroRally == RallyLoc(0, 0, 0)

\* what earlier sessions left in the region: a record from another airfield,
\* beyond the fence (is_valid() rejects it), that no caller writes again
StaleRally == RallyLoc(1, 2, 9)

\* index arguments (uint8_t): every slot and the first index beyond them
IndexInputs == 0 .. MaxPoints

\* ---------------------------------------------------------------- variables
VARIABLES
    rally_point_total_count,   \* AP_Int8 _rally_point_total_count
    storage,                   \* the StorageRally region, one record per whole slot
    rally_limit_km,            \* AP_Float _rally_limit_km (whole km here)
    rally_incl_home,           \* AP_Int8 _rally_incl_home
    rally_fs_mode,             \* AP_Int8 _rally_fs_mode
    home,                      \* AP::ahrs().get_home()
    written,                   \* per slot: the record of the last successful write, or NoRally
    call                       \* the last call: its name, arguments, results and storage accesses

vars == << rally_point_total_count, storage, rally_limit_km, rally_incl_home,
           rally_fs_mode, home, written, call >>

params == << rally_limit_km, rally_incl_home, rally_fs_mode, home >>

\* -------------------------------------------------------------- store helpers
\* uint8_t get_rally_total() : the count as the accessors compare it
get_rally_total(cnt) == U8(cnt)

\* uint8_t get_rally_max() : region size / record size, at most 255
get_rally_max ==
    LET r == storage_size \div sizeof_RallyLocation
    IN  IF r > 255 THEN 255 ELSE r

\* slots of the region that hold a whole record
Slots == 0 .. (get_rally_max - 1)

\* _storage.read_block(&ret, offset, 15): the record at that offset when the
\* block lies in the region, otherwise bytes the region does not define (g)
read_block(st, offset, g) ==
    IF offset + sizeof_RallyLocation <= get_rally_max * sizeof_RallyLocation
    THEN st[offset \div sizeof_RallyLocation]
    ELSE g

\* _storage.write_block(offset, &rallyLoc, 15)
write_block(st, offset, r) ==
    IF offset + sizeof_RallyLocation <= get_rally_max * sizeof_RallyLocation
    THEN [st EXCEPT ![offset \div sizeof_RallyLocation] = r]
    ELSE st

\* what a read may yield: one value when every read stays in the region, any
\* record when some read at an index below n falls beyond it
Undefined(n) == IF n > get_rally_max THEN RallyInputs \cup {StaleRally} ELSE {NoRally}

\* get_rally_point_with_index without the test against the count
get_without_count_test(cnt, st, i, g) ==
    LET r == read_block(st, i * sizeof_RallyLocation, g)
    IN  IF r.lat = 0 /\ r.lng = 0
        THEN [ok |-> FALSE, ret |-> r, rd |-> {i * sizeof_RallyLocation}]
        ELSE [ok |-> TRUE,  ret |-> r, rd |-> {i * sizeof_RallyLocation}]

\* get_rally_point_with_index without the lat == 0 && lng == 0 sanity check
get_without_sanity_check(cnt, st, i, g) ==
    IF i >= U8(cnt)
    THEN [ok |-> FALSE, ret |-> NoRally, rd |-> {}]
    ELSE [ok |-> TRUE, ret |-> read_block(st, i * sizeof_RallyLocation, g),
          rd |-> {i * sizeof_RallyLocation}]

\* bool get_rally_point_with_index(uint8_t i, RallyLocation &ret) const
\*   ok: the return value; ret: the output parameter; rd: offsets read
get_rally_point_with_index(cnt, st, i, g) ==
    IF i >= U8(cnt)
    THEN [ok |-> FALSE, ret |-> NoRally, rd |-> {}]
    ELSE LET r == read_block(st, i * sizeof_RallyLocation, g)
         IN  IF r.lat = 0 /\ r.lng = 0
             THEN [ok |-> FALSE, ret |-> r, rd |-> {i * sizeof_RallyLocation}]
             ELSE [ok |-> TRUE,  ret |-> r, rd |-> {i * sizeof_RallyLocation}]

\* set_rally_point_with_index without the get_rally_max() ceiling
set_without_ceiling(cnt, st, i, r) ==
    IF i >= U8(cnt)
    THEN [ok |-> FALSE, st |-> st, wr |-> {}, log |-> << >>, stamp |-> FALSE]
    ELSE [ok |-> TRUE,
          st |-> write_block(st, i * sizeof_RallyLocation, r),
          wr |-> {i * sizeof_RallyLocation},
          log |-> << [total |-> cnt, index |-> i, rec |-> r] >>,
          stamp |-> TRUE]

\* set_rally_point_with_index with the ceiling test off by one (i > max)
set_ceiling_off_by_one(cnt, st, i, r) ==
    IF i >= U8(cnt)
    THEN [ok |-> FALSE, st |-> st, wr |-> {}, log |-> << >>, stamp |-> FALSE]
    ELSE IF i > get_rally_max
    THEN [ok |-> FALSE, st |-> st, wr |-> {}, log |-> << >>, stamp |-> FALSE]
    ELSE [ok |-> TRUE,
          st |-> write_block(st, i * sizeof_RallyLocation, r),
          wr |-> {i * sizeof_RallyLocation},
          log |-> << [total |-> cnt, index |-> i, rec |-> r] >>,
          stamp |-> TRUE]

\* set_rally_point_with_index writing every record at offset 0
set_at_offset_zero(cnt, st, i, r) ==
    IF i >= U8(cnt)
    THEN [ok |-> FALSE, st |-> st, wr |-> {}, log |-> << >>, stamp |-> FALSE]
    ELSE IF i >= get_rally_max
    THEN [ok |-> FALSE, st |-> st, wr |-> {}, log |-> << >>, stamp |-> FALSE]
    ELSE [ok |-> TRUE,
          st |-> write_block(st, 0, r),
          wr |-> {0},
          log |-> << [total |-> cnt, index |-> i, rec |-> r] >>,
          stamp |-> TRUE]

\* set_rally_point_with_index that stamps and logs before the ceiling test
set_logs_before_ceiling(cnt, st, i, r) ==
    IF i >= U8(cnt)
    THEN [ok |-> FALSE, st |-> st, wr |-> {}, log |-> << >>, stamp |-> FALSE]
    ELSE IF i >= get_rally_max
    THEN [ok |-> FALSE, st |-> st, wr |-> {},
          log |-> << [total |-> cnt, index |-> i, rec |-> r] >>, stamp |-> TRUE]
    ELSE [ok |-> TRUE,
          st |-> write_block(st, i * sizeof_RallyLocation, r),
          wr |-> {i * sizeof_RallyLocation},
          log |-> << [total |-> cnt, index |-> i, rec |-> r] >>,
          stamp |-> TRUE]

\* bool set_rally_point_with_index(uint8_t i, const RallyLocation &rallyLoc)
\*   ok: the return value; st: the region afterwards; wr: offsets written;
\*   log: the Write_RallyPoint entries (total, index, record); stamp: whether
\*   _last_change_time_ms was assigned
set_rally_point_with_index(cnt, st, i, r) ==
    IF i >= U8(cnt)
    THEN [ok |-> FALSE, st |-> st, wr |-> {}, log |-> << >>, stamp |-> FALSE]
    ELSE IF i >= get_rally_max
    THEN [ok |-> FALSE, st |-> st, wr |-> {}, log |-> << >>, stamp |-> FALSE]
    ELSE [ok |-> TRUE,
          st |-> write_block(st, i * sizeof_RallyLocation, r),
          wr |-> {i * sizeof_RallyLocation},
          log |-> << [total |-> cnt, index |-> i, rec |-> r] >>,
          stamp |-> TRUE]

\* the call record of an operation that returns no record or location
NoLoc == [lat |-> -1, lng |-> -1, alt |-> -1, relative_alt |-> TRUE]

CallRec(op, i, r, ok, out, rd, wr, log, stamp) ==
    [op |-> op, i |-> i, rec |-> r, cur |-> NoLoc, alt |-> 0, failsafe |-> FALSE,
     ok |-> ok, out |-> out, loc |-> NoLoc, sel |-> "none",
     rd |-> rd, wr |-> wr, log |-> log, stamp |-> stamp]

\* ------------------------------------------------------------- store actions
CallGet(i) ==
    \E g \in Undefined(IF i < U8(rally_point_total_count) THEN i + 1 ELSE 0) :
        LET res == get_rally_point_with_index(rally_point_total_count, storage, i, g)
        IN  /\ call' = CallRec("get", i, NoRally, res.ok, res.ret, res.rd, {}, << >>, FALSE)
            /\ UNCHANGED << rally_point_total_count, storage, written, params >>

CallSet(i, r) ==
    LET res == set_rally_point_with_index(rally_point_total_count, storage, i, r)
    IN  /\ storage' = res.st
        /\ written' = IF res.ok THEN [written EXCEPT ![i] = r] ELSE written
        /\ call' = CallRec("set", i, r, res.ok, NoRally, {}, res.wr, res.log, res.stamp)
        /\ UNCHANGED << rally_point_total_count, params >>

\* truncate without the test that refuses to grow the count
truncate_may_grow(num) ==
    /\ rally_point_total_count' = I8(num)
    /\ call' = CallRec("truncate", num, NoRally, TRUE, NoRally, {}, {}, << >>, FALSE)
    /\ UNCHANGED << storage, written, params >>

\* void truncate(uint8_t num): num > _rally_point_total_count compares as int
truncate(num) ==
    /\ rally_point_total_count' =
           IF num > rally_point_total_count
           THEN rally_point_total_count
           ELSE I8(num)
    /\ call' = CallRec("truncate", num, NoRally, TRUE, NoRally, {}, {}, << >>, FALSE)
    /\ UNCHANGED << storage, written, params >>

\* append that keeps the incremented count when the write is refused
append_without_rollback(r) ==
    LET current_total == get_rally_total(rally_point_total_count)
        bumped == I8(current_total + 1)
        res == set_rally_point_with_index(bumped, storage, current_total, r)
    IN  /\ rally_point_total_count' = bumped
        /\ storage' = res.st
        /\ written' = IF res.ok THEN [written EXCEPT ![current_total] = r] ELSE written
        /\ call' = CallRec("append", current_total, r, res.ok, NoRally, {}, res.wr,
                           res.log, res.stamp)
        /\ UNCHANGED params

\* bool append(const RallyLocation &loc)
append(r) ==
    LET current_total == get_rally_total(rally_point_total_count)
        bumped == I8(current_total + 1)
        res == set_rally_point_with_index(bumped, storage, current_total, r)
    IN  /\ rally_point_total_count' = IF res.ok THEN bumped ELSE I8(current_total)
        /\ storage' = res.st
        /\ written' = IF res.ok THEN [written EXCEPT ![current_total] = r] ELSE written
        /\ call' = CallRec("append", current_total, r, res.ok, NoRally, {}, res.wr,
                           res.log, res.stamp)
        /\ UNCHANGED params

\* ------------------------------------------------------- location selection
\* positions the vehicle asks from
CurrentLocs ==
    { [lat |-> 0, lng |-> 0, alt |-> 300, relative_alt |-> FALSE],
      [lat |-> 2, lng |-> 2, alt |-> 300, relative_alt |-> FALSE],
      [lat |-> 6, lng |-> 0, alt |-> 300, relative_alt |-> FALSE] }

\* rtl_home_alt arguments (already converted to the int32 of Location::alt)
HomeAltInputs == {1500}

\* largest n with n * n <= x
RECURSIVE isqrt_from(_, _)
isqrt_from(x, n) == IF (n + 1) * (n + 1) > x THEN n ELSE isqrt_from(x, n + 1)

\* Location::get_distance(loc2): horizontal distance in metres, altitude ignored
get_distance(a, b) ==
    LET dlat == b.lat - a.lat
        dlng == b.lng - a.lng
    IN  GridMetres * isqrt_from(dlat * dlat + dlng * dlng, 0)

\* virtual bool is_valid(const Location &rally_point) const, as a vehicle
\* overrides it: locations outside the fence are rejected
is_valid(loc) == loc.lng < FenceLng

\* 32-bit unsigned arithmetic on two 16-bit limbs << high, low >>
Limb == 2 ^ 16

\* conversion of an int16_t / int32_t to unsigned long
ToU32(x) == << (x \div Limb) % Limb, x % Limb >>

\* unsigned product with a small constant, modulo 2^32
MulU32(a, k) ==
    LET p == a[2] * k
    IN  << (a[1] * k + p \div Limb) % Limb, p % Limb >>

\* unsigned sum modulo 2^32
AddU32(a, b) ==
    LET s == a[2] + b[2]
    IN  << (a[1] + b[1] + s \div Limb) % Limb, s % Limb >>

\* conversion of an unsigned long to int32_t (Location::alt)
ToI32(a) == IF a[1] >= Limb \div 2 THEN (a[1] - Limb) * Limb + a[2] ELSE a[1] * Limb + a[2]

\* rally_location_to_location taking the int16 altitude as an unsigned 16-bit value
rally_location_alt_zero_extended(rally_loc, home_loc) ==
    [lat |-> rally_loc.lat,
     lng |-> rally_loc.lng,
     alt |-> ToI32(AddU32(MulU32(<< 0, rally_loc.alt % Limb >>, 100), ToU32(home_loc.alt))),
     relative_alt |-> FALSE]

\* Location rally_location_to_location(const RallyLocation &rally_loc) const
\*   ret.alt = (rally_loc.alt*100UL) + AP::ahrs().get_home().alt
rally_location_to_location(rally_loc, home_loc) ==
    [lat |-> rally_loc.lat,
     lng |-> rally_loc.lng,
     alt |-> ToI32(AddU32(MulU32(ToU32(rally_loc.alt), 100), ToU32(home_loc.alt))),
     relative_alt |-> FALSE]

\* the loop body replacing the running best also at equal distance (<=)
find_nearest_step_on_equal(acc, cnt, st, i, g, current_loc, home_loc) ==
    LET res == get_rally_point_with_index(cnt, st, i, g)
        rally_loc == rally_location_to_location(res.ret, home_loc)
        dis == get_distance(current_loc, rally_loc)
    IN  IF ~res.ok
        THEN [acc EXCEPT !.rd = acc.rd \cup res.rd]
        ELSE IF is_valid(rally_loc) /\ (dis <= acc.min_dis \/ acc.min_dis < 0)
        THEN [min_dis |-> dis, return_loc |-> res.ret, rd |-> acc.rd \cup res.rd]
        ELSE [acc EXCEPT !.rd = acc.rd \cup res.rd]

\* the loop body without the is_valid() test
find_nearest_step_any_location(acc, cnt, st, i, g, current_loc, home_loc) ==
    LET res == get_rally_point_with_index(cnt, st, i, g)
        rally_loc == rally_location_to_location(res.ret, home_loc)
        dis == get_distance(current_loc, rally_loc)
    IN  IF ~res.ok
        THEN [acc EXCEPT !.rd = acc.rd \cup res.rd]
        ELSE IF (dis < acc.min_dis \/ acc.min_dis < 0)
        THEN [min_dis |-> dis, return_loc |-> res.ret, rd |-> acc.rd \cup res.rd]
        ELSE [acc EXCEPT !.rd = acc.rd \cup res.rd]

\* one iteration of the loop of find_nearest_rally_point: acc holds min_dis
\* and return_loc, rd the offsets read so far
find_nearest_step(acc, cnt, st, i, g, current_loc, home_loc) ==
    LET res == get_rally_point_with_index(cnt, st, i, g)
        rally_loc == rally_location_to_location(res.ret, home_loc)
        dis == get_distance(current_loc, rally_loc)
    IN  IF ~res.ok
        THEN [acc EXCEPT !.rd = acc.rd \cup res.rd]
        ELSE IF is_valid(rally_loc) /\ (dis < acc.min_dis \/ acc.min_dis < 0)
        THEN [min_dis |-> dis, return_loc |-> res.ret, rd |-> acc.rd \cup res.rd]
        ELSE [acc EXCEPT !.rd = acc.rd \cup res.rd]

\* for (uint8_t i = 0; i < (uint8_t) _rally_point_total_count; i++)
RECURSIVE find_nearest_loop(_, _, _, _, _, _, _)
find_nearest_loop(acc, cnt, st, i, g, current_loc, home_loc) ==
    IF i < U8(cnt)
    THEN find_nearest_loop(find_nearest_step(acc, cnt, st, i, g, current_loc, home_loc),
                           cnt, st, i + 1, g, current_loc, home_loc)
    ELSE acc

\* find_nearest_rally_point that reports success although no candidate was found
find_nearest_always_found(cnt, st, limit_km, current_loc, home_loc, entry, g) ==
    LET acc == find_nearest_loop([min_dis |-> -1, return_loc |-> entry, rd |-> {}],
                                 cnt, st, 0, g, current_loc, home_loc)
    IN  IF (limit_km > 0) /\ (acc.min_dis > limit_km * 1000)
        THEN [ok |-> FALSE, return_loc |-> acc.return_loc, min_dis |-> acc.min_dis, rd |-> acc.rd]
        ELSE [ok |-> TRUE, return_loc |-> acc.return_loc,
              min_dis |-> acc.min_dis, rd |-> acc.rd]

\* find_nearest_rally_point without the distance limit
find_nearest_without_limit(cnt, st, limit_km, current_loc, home_loc, entry, g) ==
    LET acc == find_nearest_loop([min_dis |-> -1, return_loc |-> entry, rd |-> {}],
                                 cnt, st, 0, g, current_loc, home_loc)
    IN  [ok |-> acc.min_dis >= 0, return_loc |-> acc.return_loc,
         min_dis |-> acc.min_dis, rd |-> acc.rd]

\* find_nearest_rally_point refusing a nearest point exactly at the limit (>=)
find_nearest_limit_inclusive(cnt, st, limit_km, current_loc, home_loc, entry, g) ==
    LET acc == find_nearest_loop([min_dis |-> -1, return_loc |-> entry, rd |-> {}],
                                 cnt, st, 0, g, current_loc, home_loc)
    IN  IF (limit_km > 0) /\ (acc.min_dis >= limit_km * 1000)
        THEN [ok |-> FALSE, return_loc |-> acc.return_loc, min_dis |-> acc.min_dis, rd |-> acc.rd]
        ELSE [ok |-> acc.min_dis >= 0, return_loc |-> acc.return_loc,
              min_dis |-> acc.min_dis, rd |-> acc.rd]

\* bool find_nearest_rally_point(const Location &current_loc, RallyLocation &return_loc) const
\*   entry: the caller's value of return_loc; g: what a read beyond the region yields
find_nearest_rally_point(cnt, st, limit_km, current_loc, home_loc, entry, g) ==
    LET acc == find_nearest_loop([min_dis |-> -1, return_loc |-> entry, rd |-> {}],
                                 cnt, st, 0, g, current_loc, home_loc)
    IN  IF (limit_km > 0) /\ (acc.min_dis > limit_km * 1000)
        THEN [ok |-> FALSE, return_loc |-> acc.return_loc, min_dis |-> acc.min_dis, rd |-> acc.rd]
        ELSE [ok |-> acc.min_dis >= 0, return_loc |-> acc.return_loc,
              min_dis |-> acc.min_dis, rd |-> acc.rd]

\* the home fallback: return_loc = home_loc; alt = rtl_home_alt; relative_alt = false
home_fallback(home_loc, rtl_home_alt) ==
    [home_loc EXCEPT !.alt = rtl_home_alt, !.relative_alt = FALSE]

\* calc_best_rally_or_home_location without the early return of the failsafe mode
calc_without_fs_return(cnt, st, limit_km, incl_home, fs_mode, home_loc, current_loc, rtl_home_alt, failsafe, g) ==
    LET return_loc == home_fallback(home_loc, rtl_home_alt)
        include_home == IF fs_mode > 0 /\ failsafe THEN FALSE ELSE incl_home # 0
        res == find_nearest_rally_point(cnt, st, limit_km, current_loc, home_loc, ZeroRally, g)
        loc == rally_location_to_location(res.return_loc, home_loc)
    IN  IF FALSE
        THEN [loc |-> return_loc, sel |-> "home", ral_loc |-> ZeroRally,
              searched |-> FALSE, found |-> FALSE, rd |-> {}]
        ELSE IF res.ok /\ (~include_home \/ get_distance(current_loc, loc) < get_distance(current_loc, return_loc))
        THEN [loc |-> loc, sel |-> "rally", ral_loc |-> res.return_loc,
              searched |-> TRUE, found |-> res.ok, rd |-> res.rd]
        ELSE [loc |-> return_loc, sel |-> "home", ral_loc |-> res.return_loc,
              searched |-> TRUE, found |-> res.ok, rd |-> res.rd]

\* calc_best_rally_or_home_location that leaves include_home as configured on a failsafe
calc_fs_keeps_home(cnt, st, limit_km, incl_home, fs_mode, home_loc, current_loc, rtl_home_alt, failsafe, g) ==
    LET return_loc == home_fallback(home_loc, rtl_home_alt)
        include_home == incl_home # 0
        res == find_nearest_rally_point(cnt, st, limit_km, current_loc, home_loc, ZeroRally, g)
        loc == rally_location_to_location(res.return_loc, home_loc)
    IN  IF fs_mode > 0 /\ ~failsafe
        THEN [loc |-> return_loc, sel |-> "home", ral_loc |-> ZeroRally,
              searched |-> FALSE, found |-> FALSE, rd |-> {}]
        ELSE IF res.ok /\ (~include_home \/ get_distance(current_loc, loc) < get_distance(current_loc, return_loc))
        THEN [loc |-> loc, sel |-> "rally", ral_loc |-> res.return_loc,
              searched |-> TRUE, found |-> res.ok, rd |-> res.rd]
        ELSE [loc |-> return_loc, sel |-> "home", ral_loc |-> res.return_loc,
              searched |-> TRUE, found |-> res.ok, rd |-> res.rd]

\* calc_best_rally_or_home_location that takes the rally point at equal distance (<=)
calc_rally_on_equal(cnt, st, limit_km, incl_home, fs_mode, home_loc, current_loc, rtl_home_alt, failsafe, g) ==
    LET return_loc == home_fallback(home_loc, rtl_home_alt)
        include_home == IF fs_mode > 0 /\ failsafe THEN FALSE ELSE incl_home # 0
        res == find_nearest_rally_point(cnt, st, limit_km, current_loc, home_loc, ZeroRally, g)
        loc == rally_location_to_location(res.return_loc, home_loc)
    IN  IF fs_mode > 0 /\ ~failsafe
        THEN [loc |-> return_loc, sel |-> "home", ral_loc |-> ZeroRally,
              searched |-> FALSE, found |-> FALSE, rd |-> {}]
        ELSE IF res.ok /\ (~include_home \/ get_distance(current_loc, loc) <= get_distance(current_loc, return_loc))
        THEN [loc |-> loc, sel |-> "rally", ral_loc |-> res.return_loc,
              searched |-> TRUE, found |-> res.ok, rd |-> res.rd]
        ELSE [loc |-> return_loc, sel |-> "home", ral_loc |-> res.return_loc,
              searched |-> TRUE, found |-> res.ok, rd |-> res.rd]

\* calc_best_rally_or_home_location that does not test the result of the search
calc_ignores_search(cnt, st, limit_km, incl_home, fs_mode, home_loc, current_loc, rtl_home_alt, failsafe, g) ==
    LET return_loc == home_fallback(home_loc, rtl_home_alt)
        include_home == IF fs_mode > 0 /\ failsafe THEN FALSE ELSE incl_home # 0
        res == find_nearest_rally_point(cnt, st, limit_km, current_loc, home_loc, ZeroRally, g)
        loc == rally_location_to_location(res.return_loc, home_loc)
    IN  IF fs_mode > 0 /\ ~failsafe
        THEN [loc |-> return_loc, sel |-> "home", ral_loc |-> ZeroRally,
              searched |-> FALSE, found |-> FALSE, rd |-> {}]
        ELSE IF (~include_home \/ get_distance(current_loc, loc) < get_distance(current_loc, return_loc))
        THEN [loc |-> loc, sel |-> "rally", ral_loc |-> res.return_loc,
              searched |-> TRUE, found |-> res.ok, rd |-> res.rd]
        ELSE [loc |-> return_loc, sel |-> "home", ral_loc |-> res.return_loc,
              searched |-> TRUE, found |-> res.ok, rd |-> res.rd]

\* Location calc_best_rally_or_home_location(current_loc, rtl_home_alt, failsafe) const
\*   loc: the returned location; sel: which assignment produced it;
\*   ral_loc: the record the search reported; searched / found: the search ran / succeeded
calc_best_rally_or_home_location(cnt, st, limit_km, incl_home, fs_mode, home_loc, current_loc, rtl_home_alt, failsafe, g) ==
    LET return_loc == home_fallback(home_loc, rtl_home_alt)
        include_home == IF fs_mode > 0 /\ failsafe THEN FALSE ELSE incl_home # 0
        res == find_nearest_rally_point(cnt, st, limit_km, current_loc, home_loc, ZeroRally, g)
        loc == rally_location_to_location(res.return_loc, home_loc)
    IN  IF fs_mode > 0 /\ ~failsafe
        THEN [loc |-> return_loc, sel |-> "home", ral_loc |-> ZeroRally,
              searched |-> FALSE, found |-> FALSE, rd |-> {}]
        ELSE IF res.ok /\ (~include_home
                           \/ get_distance(current_loc, loc) < get_distance(current_loc, return_loc))
        THEN [loc |-> loc, sel |-> "rally", ral_loc |-> res.return_loc,
              searched |-> TRUE, found |-> TRUE, rd |-> res.rd]
        ELSE [loc |-> return_loc, sel |-> "home", ral_loc |-> res.return_loc,
              searched |-> TRUE, found |-> res.ok, rd |-> res.rd]

SelRec(op, cur, alt, fs, ok, out, loc, sel, rd) ==
    [op |-> op, i |-> 0, rec |-> NoRally, cur |-> cur, alt |-> alt, failsafe |-> fs,
     ok |-> ok, out |-> out, loc |-> loc, sel |-> sel,
     rd |-> rd, wr |-> {}, log |-> << >>, stamp |-> FALSE]

CallFindNearest(current_loc) ==
    \E g \in Undefined(U8(rally_point_total_count)) :
        LET res == find_nearest_rally_point(rally_point_total_count, storage, rally_limit_km,
                                            current_loc, home, NoRally, g)
        IN  /\ call' = SelRec("find", current_loc, 0, FALSE, res.ok, res.return_loc,
                              NoLoc, "none", res.rd)
            /\ UNCHANGED << rally_point_total_count, storage, written, params >>

CallCalcBest(current_loc, rtl_home_alt, failsafe) ==
    \E g \in Undefined(U8(rally_point_total_count)) :
        LET res == calc_best_rally_or_home_location(rally_point_total_count, storage,
                       rally_limit_km, rally_incl_home, rally_fs_mode, home,
                       current_loc, rtl_home_alt, failsafe, g)
        IN  /\ call' = SelRec("calc", current_loc, rtl_home_alt, failsafe, res.found,
                              res.ral_loc, res.loc, res.sel, res.rd)
            /\ UNCHANGED << rally_point_total_count, storage, written, params >>

\* Location calc_best_rally_or_home_location(current_loc, rtl_home_alt) const
\*   return calc_best_rally_or_home_location(current_loc, rtl_home_alt, false)
CallCalcBest2(current_loc, rtl_home_alt) ==
    \E g \in Undefined(U8(rally_point_total_count)) :
        LET res == calc_best_rally_or_home_location(rally_point_total_count, storage,
                       rally_limit_km, rally_incl_home, rally_fs_mode, home,
                       current_loc, rtl_home_alt, FALSE, g)
        IN  /\ call' = SelRec("calc", current_loc, rtl_home_alt, FALSE, res.found,
                              res.ral_loc, res.loc, res.sel, res.rd)
            /\ UNCHANGED << rally_point_total_count, storage, written, params >>

\* ------------------------------------------------------------ specification
HomeLoc == [lat |-> 2, lng |-> 0, alt |-> 1000, relative_alt |-> FALSE]

InitCall ==
    [op |-> "none", i |-> 0, rec |-> NoRally, cur |-> NoLoc, alt |-> 0,
     failsafe |-> FALSE, ok |-> FALSE, out |-> NoRally, loc |-> NoLoc,
     sel |-> "none", rd |-> {}, wr |-> {}, log |-> << >>, stamp |-> FALSE]

\* the parameters as AP_Param::setup_object_defaults leaves them (the build
\* that is neither Copter, Plane nor Rover): LIMIT_KM 1.0, INCL_HOME 0, FS_MODE 1
DefaultParams ==
    /\ rally_limit_km = 1
    /\ rally_incl_home = 0
    /\ rally_fs_mode = 1

\* the parameters as a user may have saved them
AnyParams ==
    /\ rally_limit_km \in {-1, 0, 1}
    /\ rally_incl_home \in {0, 1}
    /\ rally_fs_mode \in {0, 1}

InitCommon ==
    /\ storage = [s \in Slots |-> StaleRally]
    /\ home = HomeLoc
    /\ written = [s \in Slots |-> NoRally]
    /\ call = InitCall

\* the count parameter as loaded at startup: within the capacity
Init ==
    /\ rally_point_total_count \in 0 .. get_rally_max
    /\ AnyParams
    /\ InitCommon

\* the store alone, with the default parameters
InitStore ==
    /\ rally_point_total_count \in 0 .. get_rally_max
    /\ DefaultParams
    /\ InitCommon

\* a RALLY_TOTAL that does not match the region: any value an AP_Int8 parameter
\* can have been set to, here the ones around the capacity and around the sign
CorruptTotals == {get_rally_max + 1, 127, -128, -1}

InitAnyCount ==
    /\ rally_point_total_count \in (0 .. get_rally_max) \cup CorruptTotals
    /\ DefaultParams
    /\ InitCommon

\* an empty collection over whatever the region held before
InitEmpty ==
    /\ rally_point_total_count = 0
    /\ DefaultParams
    /\ InitCommon

NextStore ==
    \/ \E i \in IndexInputs : CallGet(i)
    \/ \E i \in IndexInputs, r \in RallyInputs : CallSet(i, r)
    \/ \E n \in IndexInputs : truncate(n)
    \/ \E r \in RallyInputs : append(r)

NextSelect ==
    \/ \E c \in CurrentLocs : CallFindNearest(c)
    \/ \E c \in CurrentLocs, a \in HomeAltInputs, f \in BOOLEAN : CallCalcBest(c, a, f)
    \/ \E c \in CurrentLocs, a \in HomeAltInputs : CallCalcBest2(c, a)

Next == NextStore \/ NextSelect

Spec == Init /\ [][Next]_vars

SpecStore == InitStore /\ [][NextStore]_vars

SpecAnyCount == InitAnyCount /\ [][NextStore]_vars

\* ------------------------------------------------ the conversion on its own
\* records handed to rally_location_to_location: the int16 altitude range
ConvertInputs ==
    { RallyLoc(p[1], p[2], a) :
          p \in { << 0, 0 >>, << 0, 1 >>, << 3, 0 >>, << -5, 7 >> },
          a \in { -32768, -327, -1, 0, 1, 327, 32767 } }

\* home altitudes in centimetres: below the datum, at it, above it, very high
ConvertHomes ==
    { [HomeLoc EXCEPT !.alt = a] : a \in { -5000, 0, 1000, 2000000000 } }

\* a caller converts a record: rally_location_to_location(rally_loc)
CallConvert(r) ==
    /\ call' = [InitCall EXCEPT !.op = "convert", !.rec = r, !.ok = TRUE,
                                !.loc = rally_location_to_location(r, home)]
    /\ UNCHANGED << rally_point_total_count, storage, written, params >>

InitConvert ==
    /\ rally_point_total_count = 0
    /\ DefaultParams
    /\ storage = [s \in Slots |-> StaleRally]
    /\ home \in ConvertHomes
    /\ written = [s \in Slots |-> NoRally]
    /\ call = InitCall

NextConvert == \E r \in ConvertInputs : CallConvert(r)

SpecConvert == InitConvert /\ [][NextConvert]_vars

SpecEmpty == InitEmpty /\ [][NextStore]_vars

\* ------------------------------------------------------------------ claims
\* lat == 0 && lng == 0
IsZeroLatLng(r) == r.lat = 0 /\ r.lng = 0

\* the offsets of a 15-byte block that lies within the whole records of the region
InRegion(offset) == offset + sizeof_RallyLocation <= get_rally_max * sizeof_RallyLocation

\* the count as get, set and the search compare it
Total == get_rally_total(rally_point_total_count)

\* what get yields for slot i in the current state
GetNow(i) == get_rally_point_with_index(rally_point_total_count, storage, i, NoRally)

\* C1: started with a count within the capacity, the count is within the
\* capacity (region size / record size) between any two calls
C1_CountWithinCapacity ==
    /\ rally_point_total_count >= 0
    /\ Total <= storage_size \div sizeof_RallyLocation

\* an append filled the last slot of the region
C1_Witness ==
    /\ call.op = "append" /\ call.ok
    /\ Total = get_rally_max

\* C2: append adds exactly 1 to the count when it returns true, leaves the
\* count as it was when it returns false, and returns false at capacity
C2_AppendCount ==
    [][ call'.op = "append" =>
          /\ call'.ok => get_rally_total(rally_point_total_count') = Total + 1
          /\ ~call'.ok => rally_point_total_count' = rally_point_total_count
          /\ Total = get_rally_max =>
                 ~call'.ok /\ rally_point_total_count' = rally_point_total_count ]_vars

\* an append was refused with the count at capacity
C2_Witness ==
    /\ call.op = "append" /\ ~call.ok
    /\ Total = get_rally_max

\* C3: get at an index below the count returns true and exactly the record of
\* the most recent successful write to that slot, when that record's latitude
\* and longitude are not both zero
C3_GetReturnsLastWrite ==
    /\ \A i \in Slots :
           (i < Total /\ written[i] # NoRally /\ ~IsZeroLatLng(written[i]))
               => GetNow(i).ok /\ GetNow(i).ret = written[i]
    /\ (call.op = "get" /\ call.i \in Slots /\ call.i < Total
           /\ written[call.i] # NoRally /\ ~IsZeroLatLng(written[call.i]))
               => call.ok /\ call.out = written[call.i]

\* a get returned the record written to slot 1 while slot 0 holds another record
C3_Witness ==
    /\ call.op = "get" /\ call.i = 1 /\ call.ok
    /\ written[1] # NoRally /\ call.out = written[1]
    /\ written[0] # NoRally /\ written[0] # written[1]

\* C4: get at an index at or above the count returns false, whatever the slot holds
C4_GetBeyondCountAbsent ==
    /\ \A i \in IndexInputs : i >= Total => ~GetNow(i).ok
    /\ (call.op = "get" /\ call.i >= Total) => ~call.ok /\ call.rd = {}

\* a get was refused at a slot that holds a written, present record hidden by truncate
C4_Witness ==
    /\ call.op = "get" /\ ~call.ok
    /\ call.i \in Slots /\ call.i >= Total
    /\ written[call.i] # NoRally /\ ~IsZeroLatLng(storage[call.i])

\* C5: truncate(n) with n above the count changes nothing; with n at or below
\* the count it sets the count to n; it never changes a stored record
C5_Truncate ==
    [][ call'.op = "truncate" =>
          /\ storage' = storage
          /\ call'.i > Total => rally_point_total_count' = rally_point_total_count
          /\ call'.i <= Total => get_rally_total(rally_point_total_count') = call'.i ]_vars

\* C6: a record with latitude 0 and longitude 0 is never reported present by
\* get, not after a successful set or append of it either, and is never what
\* the search reports or what the selection returns
C6_ZeroIsAbsent ==
    /\ \A i \in Slots : (i < Total /\ IsZeroLatLng(storage[i])) => ~GetNow(i).ok
    /\ (call.op = "get" /\ call.ok) => ~IsZeroLatLng(call.out)
    /\ (call.op \in {"set", "append"} /\ call.ok /\ IsZeroLatLng(call.rec))
           => (storage[call.i] = call.rec /\ ~GetNow(call.i).ok)
    /\ (call.op = "find" /\ call.ok) => ~IsZeroLatLng(call.out)
    /\ (call.op = "calc" /\ call.sel = "rally") => ~IsZeroLatLng(call.out)

\* the selection returned a rally point while a zero record sits below the count
C6_Witness ==
    /\ call.op = "calc" /\ call.sel = "rally"
    /\ \E i \in Slots : i < Total /\ IsZeroLatLng(storage[i])

\* C7: set at an index at or above the capacity returns false and writes
\* nothing, whatever the count; set and append write only within the region
C7_SetCeiling ==
    /\ (call.op \in {"set", "append"} /\ call.i >= get_rally_max)
           => ~call.ok /\ call.wr = {}
    /\ call.op \in {"set", "append"} => \A o \in call.wr : InRegion(o)

\* a set at the capacity was refused although the count is above that index
C7_Witness ==
    /\ call.op = "set" /\ ~call.ok
    /\ call.i >= get_rally_max /\ call.i < Total

\* C8: at an index at or above the count, or at or above the capacity, get
\* returns absent and set returns false, and neither touches storage beyond
\* the region, whatever the count
C8_OutOfRangeFails ==
    /\ (call.op = "get" /\ (call.i >= Total \/ call.i >= get_rally_max))
           => ~call.ok /\ \A o \in call.rd : InRegion(o)
    /\ (call.op = "set" /\ (call.i >= Total \/ call.i >= get_rally_max))
           => ~call.ok /\ call.wr = {}

\* the slots below the count that get reports present and is_valid accepts
ValidSlots ==
    { i \in Slots : /\ i < Total
                    /\ GetNow(i).ok
                    /\ is_valid(rally_location_to_location(storage[i], home)) }

\* distance from a position to the rally point of a slot
SlotDistance(cur, i) == get_distance(cur, rally_location_to_location(storage[i], home))

\* C9: with no valid rally point the selection returns the home fallback:
\* home latitude and longitude, the given altitude, absolute
C9_NoRallyGivesHome ==
    (call.op = "calc" /\ ValidSlots = {})
        => /\ call.loc = [lat |-> home.lat, lng |-> home.lng, alt |-> call.alt,
                          relative_alt |-> FALSE]
           /\ call.sel = "home"

\* the search ran over a non-empty collection without a valid point
C9_Witness ==
    /\ call.op = "calc" /\ call.failsafe
    /\ Total > 0 /\ ValidSlots = {}
    /\ call.rd # {}
    /\ call.loc.lat = home.lat /\ call.loc.alt = call.alt

MinDistance(cur) ==
    CHOOSE d \in { SlotDistance(cur, i) : i \in ValidSlots } :
        \A j \in ValidSlots : d <= SlotDistance(cur, j)

\* the lowest slot among the valid rally points at the smallest distance
NearestSlot(cur) ==
    CHOOSE i \in ValidSlots :
        /\ SlotDistance(cur, i) = MinDistance(cur)
        /\ \A j \in ValidSlots : SlotDistance(cur, j) = MinDistance(cur) => i <= j

\* the home fallback of the last call: home position, the given altitude, absolute
HomeFallback ==
    [lat |-> home.lat, lng |-> home.lng, alt |-> call.alt, relative_alt |-> FALSE]

\* C11: with the failsafe mode enabled and failsafe false, the selection
\* returns the home fallback, whatever is stored and configured
C11_FsModeNormalGivesHome ==
    (call.op = "calc" /\ rally_fs_mode > 0 /\ ~call.failsafe)
        => call.loc = HomeFallback /\ call.sel = "home"

\* home returned although home is excluded and a valid rally point within the
\* limit is strictly closer than home
C11_Witness ==
    /\ call.op = "calc" /\ rally_fs_mode > 0 /\ ~call.failsafe
    /\ rally_incl_home = 0 /\ rally_limit_km = 1
    /\ ValidSlots # {}
    /\ MinDistance(call.cur) <= 1000
    /\ MinDistance(call.cur) < get_distance(call.cur, home)
    /\ call.loc = HomeFallback

\* C12: with the failsafe mode enabled and failsafe true, a successful search
\* makes the selection return the converted nearest rally point, whatever
\* include-home is and also when home is closer
C12_FsModeFailsafeGivesRally ==
    (call.op = "calc" /\ rally_fs_mode > 0 /\ call.failsafe /\ call.ok)
        => /\ call.sel = "rally"
           /\ ValidSlots # {}
           /\ call.loc = rally_location_to_location(storage[NearestSlot(call.cur)], home)

\* include-home set and home strictly closer than the rally point returned
C12_Witness ==
    /\ call.op = "calc" /\ rally_fs_mode > 0 /\ call.failsafe /\ call.ok
    /\ rally_incl_home = 1
    /\ call.sel = "rally"
    /\ get_distance(call.cur, home) < get_distance(call.cur, call.loc)

\* C13: among valid rally points at the same smallest distance the search
\* reports the one with the lowest index
C13_TieBreakLowestIndex ==
    (call.op = "find" /\ call.ok)
        => /\ ValidSlots # {}
           /\ call.out = storage[NearestSlot(call.cur)]

\* two different valid records at the same smallest distance, the first reported
C13_Witness ==
    /\ call.op = "find" /\ call.ok
    /\ \E i, j \in ValidSlots :
           /\ i < j /\ storage[i] # storage[j]
           /\ SlotDistance(call.cur, i) = MinDistance(call.cur)
           /\ SlotDistance(call.cur, j) = MinDistance(call.cur)
           /\ call.out = storage[i]

\* C14: a refused append leaves the count, the stored records, the
\* last-change time and the log as they were; an accepted append stores the
\* record at the index equal to the old count, leaves the lower slots as they
\* were and emits one log entry with the new count and that index
C14_AppendAllOrNothing ==
    [][ call'.op = "append" =>
          /\ ~call'.ok =>
                 /\ rally_point_total_count' = rally_point_total_count
                 /\ storage' = storage
                 /\ ~call'.stamp
                 /\ call'.log = << >>
                 /\ call'.wr = {}
          /\ call'.ok =>
                 /\ Total \in Slots
                 /\ storage'[Total] = call'.rec
                 /\ \A j \in Slots : j # Total => storage'[j] = storage[j]
                 /\ Len(call'.log) = 1
                 /\ call'.log[1].total = rally_point_total_count'
                 /\ call'.log[1].index = Total
                 /\ call'.log[1].rec = call'.rec
                 /\ call'.stamp ]_vars

\* an append was refused on a region whose lower slots hold written records
C14_Witness ==
    /\ call.op = "append" /\ ~call.ok /\ call.log = << >>
    /\ \A j \in Slots : written[j] # NoRally

\* C15: the record a successful search reports is a record below the count
\* that get reports present and whose location is valid, and no other such
\* record is nearer to the current position
C15_FoundIsNearestValid ==
    (call.op = "find" /\ call.ok)
        => \E i \in ValidSlots :
               /\ storage[i] = call.out
               /\ \A j \in ValidSlots : SlotDistance(call.cur, i) <= SlotDistance(call.cur, j)

\* the search skipped a present record that is nearer but not valid
C15_Witness ==
    /\ call.op = "find" /\ call.ok
    /\ \E i \in Slots :
           /\ i < Total /\ GetNow(i).ok /\ i \notin ValidSlots
           /\ SlotDistance(call.cur, i) < get_distance(call.cur, rally_location_to_location(call.out, home))

C17_HomeOrRally ==
    (call.op = "calc" /\ rally_fs_mode = 0 /\ call.ok) =>
        LET rally == rally_location_to_location(storage[NearestSlot(call.cur)], home)
        IN  IF rally_incl_home = 0
               \/ get_distance(call.cur, rally) < get_distance(call.cur, HomeFallback)
            THEN call.sel = "rally" /\ call.loc = rally
            ELSE call.sel = "home" /\ call.loc = HomeFallback

\* home included, rally point and home at the same distance, home returned
C17_Witness ==
    /\ call.op = "calc" /\ rally_fs_mode = 0 /\ call.ok /\ rally_incl_home = 1
    /\ MinDistance(call.cur) = get_distance(call.cur, home)
    /\ call.sel = "home" /\ call.loc = HomeFallback

\* C18: the converted location has the record's latitude and longitude, the
\* altitude alt * 100 + home altitude as a signed value, also for a negative
\* alt, and is absolute
C18_Conversion ==
    call.op = "convert" =>
        /\ call.loc.lat = call.rec.lat
        /\ call.loc.lng = call.rec.lng
        /\ call.loc.alt = call.rec.alt * 100 + home.alt
        /\ call.loc.relative_alt = FALSE

\* a record with a negative altitude was converted over a home below the datum
C18_Witness ==
    /\ call.op = "convert"
    /\ call.rec.alt = -32768 /\ home.alt = -5000
    /\ call.loc.alt = -3281800

\* C19: from an empty collection, a slot comes below the count only through
\* an append that writes it, so every slot below the count holds the record of
\* a successful write made since the count last was at or below it, and a get
\* never returns what truncate hid
C19_NoStaleVisible ==
    [][ /\ \A i \in Slots :
               (Total <= i /\ get_rally_total(rally_point_total_count') > i)
                   => /\ call'.op = "append" /\ call'.ok /\ call'.i = i
                      /\ storage'[i] = call'.rec
                      /\ written'[i] = call'.rec
        /\ \A i \in Slots :
               i < get_rally_total(rally_point_total_count')
                   => written'[i] # NoRally /\ storage'[i] = written'[i]
        /\ (call'.op = "get" /\ call'.ok)
               => /\ call'.i < Total
                  /\ call'.out = written[call'.i] ]_vars

\* slot 1 was written and then hidden by truncate while slot 0 stays visible:
\* a get at slot 1 is refused
C19_Witness ==
    /\ call.op = "get" /\ call.i = 1 /\ ~call.ok
    /\ Total = 1
    /\ written[1] # NoRally /\ ~IsZeroLatLng(written[1])
    /\ written[0] # NoRally

\* C20: the selection returns the home fallback or the conversion of a record
\* that get reports present below the count, always absolute, and neither the
\* selection nor the search changes the count or a stored record
C20_SelectionResult ==
    [][ call'.op \in {"calc", "find"} =>
          /\ rally_point_total_count' = rally_point_total_count
          /\ storage' = storage
          /\ call'.op = "calc" =>
                 /\ call'.loc.relative_alt = FALSE
                 /\ \/ call'.loc = [lat |-> home.lat, lng |-> home.lng,
                                    alt |-> call'.alt, relative_alt |-> FALSE]
                    \/ \E i \in Slots :
                           /\ i < Total /\ GetNow(i).ok
                           /\ call'.loc = rally_location_to_location(storage[i], home) ]_vars

\* the selection returned the conversion of the record of slot 1, not that of slot 0
C20_Witness ==
    /\ call.op = "calc" /\ call.sel = "rally"
    /\ Total = 2 /\ storage[0] # storage[1]
    /\ call.loc = rally_location_to_location(storage[1], home)

====
